---- MODULE Spec2Model ----
(***************************************************************************)
(* Model of scripts/analyze_iac.py: the IaC quality analyzer.              *)
(*                                                                         *)
(* A parsed YAML document is a tagged value (null, bool, int, str, map,    *)
(* seq).  Text is a sequence of fragments; the substring tests of the      *)
(* source ("apt" in str(task), "/var/run/docker.sock" in volume) are       *)
(* membership tests on fragments.  Scores are the integral floats of the   *)
(* source kept as integers; the overall score is kept in hundredths, so    *)
(* the weights 0.25, 0.30, 0.20, 0.25 are the integers 25, 30, 20, 25.     *)
(***************************************************************************)
EXTENDS Integers, Sequences, FiniteSets, TLC

VARIABLES fs, pc, todo, issues, report, fresh, clock, runs, returned, exit_status, adds

vars == <<fs, pc, todo, issues, report, fresh, clock, runs, returned, exit_status, adds>>

(***************************************************************************)
(* Bounds of the model.                                                    *)
(***************************************************************************)
\* The number of files of the project tree, playbooks and compose files
\* together.
MaxFiles == 2

MaxRuns == 2

\* The number of services of the largest compose file.
MaxServices == 11

\* The number of equal issues an analyzer driven method by method starts
\* with, and the number of _add_issue calls made on it afterwards.
MaxBulk == 21

\* The longest issue sequence whose every permutation is scored.
MaxPermLen == 3
MaxAdds == 1

(***************************************************************************)
(* YAML values as produced by yaml.safe_load.                              *)
(***************************************************************************)
V(t, n, s, e) == [t |-> t, n |-> n, s |-> s, e |-> e]

YNull == V("null", 0, <<>>, <<>>)

YBool(b) == V("bool", IF b THEN 1 ELSE 0, <<>>, <<>>)

YInt(n) == V("int", n, <<>>, <<>>)

YStr(frags) == V("str", 0, frags, <<>>)

YMap(pairs) == V("map", 0, <<>>, pairs)

YList(elems) == V("seq", 0, <<>>, elems)

KV(k, v) == [k |-> k, v |-> v]

\* Python truth value of a parsed document or field ("if not data").
Truthy(v) ==
    CASE v.t = "null" -> FALSE
      [] v.t = "bool" -> v.n = 1
      [] v.t = "int" -> v.n # 0
      [] v.t = "str" -> v.s # <<>>
      [] OTHER -> v.e # <<>>

isinstance_dict(v) == v.t = "map"

isinstance_list(v) == v.t = "seq"

isinstance_str(v) == v.t = "str"

\* key in d, for a dict d.
HasKey(d, k) == \E i \in 1..Len(d.e) : d.e[i].k = k

\* d[k], for a dict d that has the key.
Get(d, k) == d.e[CHOOSE i \in 1..Len(d.e) : d.e[i].k = k].v

\* d.get(k, default)
GetOr(d, k, default) == IF HasKey(d, k) THEN Get(d, k) ELSE default

\* needle in text, for a str: a substring test on fragments.
Contains(frags, needle) == \E i \in 1..Len(frags) : frags[i] = needle

RECURSIVE Render(_)
\* str(value): the text of every key and every scalar of the value.
Render(v) ==
    CASE v.t = "null" -> <<"None">>
      [] v.t = "bool" -> IF v.n = 1 THEN <<"True">> ELSE <<"False">>
      [] v.t = "int" -> <<"0-9">>
      [] v.t = "str" -> v.s
      [] v.t = "map" ->
            IF v.e = <<>> THEN <<>>
            ELSE <<Head(v.e).k>> \o Render(Head(v.e).v) \o Render(YMap(Tail(v.e)))
      [] OTHER ->
            IF v.e = <<>> THEN <<>>
            ELSE Render(Head(v.e)) \o Render(YList(Tail(v.e)))

(***************************************************************************)
(* Issue and the result of evaluating one file.                            *)
(***************************************************************************)
Severities == {"error", "warning", "info"}

Categories == {"atomicity", "idempotence", "maintainability", "standards"}

\* An issue that keeps the 0-based index the enumerate loops count with.
Issue_zero_based(file, line, severity, category, message, fix_suggestion) ==
    [file |-> file, line |-> line - 1, severity |-> severity, category |-> category,
     message |-> message, fix_suggestion |-> fix_suggestion]

\* fix_suggestion is <<>> for None, <<text>> otherwise.
Issue(file, line, severity, category, message, fix_suggestion) ==
    [file |-> file, line |-> line, severity |-> severity, category |-> category,
     message |-> message, fix_suggestion |-> fix_suggestion]

\* What a (part of a) handler did: the issues it appended through _add_issue
\* and whether an exception left it ("none", "yaml", "other").
Done(iss) == [iss |-> iss, exc |-> "none"]

Raised(iss, exc) == [iss |-> iss, exc |-> exc]

\* Sequential composition: b runs only if a did not raise.
AndThen(a, b) == IF a.exc # "none" THEN a ELSE [iss |-> a.iss \o b.iss, exc |-> b.exc]

(***************************************************************************)
(* Playbook rule evaluators.                                               *)
(***************************************************************************)
ShellModules == <<"shell", "command", "raw">>

ShellKeywords == <<"apt", "yum", "dnf", "pip", "systemctl", "service">>

StateModules == <<"apt", "yum", "dnf", "package", "service", "systemd">>

\* The issues _analyze_tasks adds for the task at 0-based index task_idx.
task_issues(playbook_path, task, task_idx) ==
    IF ~isinstance_dict(task) THEN <<>>
    ELSE
      (IF ~HasKey(task, "name")
       THEN <<Issue(playbook_path, task_idx + 1, "warning", "maintainability",
                    <<"Task should have a descriptive name">>,
                    <<"Add 'name: <description>' to the task">>)>>
       ELSE <<>>)
      \o
      (IF (\E m \in 1..Len(ShellModules) : HasKey(task, ShellModules[m]))
          /\ ~HasKey(task, "changed_when")
       THEN <<Issue(playbook_path, task_idx + 1, "warning", "idempotence",
                    <<"shell/command/raw should define 'changed_when' for idempotence">>,
                    <<"Add 'changed_when: <condition>' to indicate when task makes changes">>)>>
       ELSE <<>>)
      \o
      (IF (HasKey(task, "shell") \/ HasKey(task, "command"))
          /\ (\E k \in 1..Len(ShellKeywords) : Contains(Render(task), ShellKeywords[k]))
       THEN <<Issue(playbook_path, task_idx + 1, "info", "atomicity",
                    <<"Consider using dedicated Ansible module instead of shell/command">>,
                    <<"Use apt, package, pip, systemd, or service modules">>)>>
       ELSE <<>>)

RECURSIVE tasks_from(_, _, _)
\* The loop of _analyze_tasks from 0-based index task_idx on.
tasks_from(playbook_path, tasks, task_idx) ==
    IF task_idx >= Len(tasks) THEN <<>>
    ELSE task_issues(playbook_path, tasks[task_idx + 1], task_idx)
         \o tasks_from(playbook_path, tasks, task_idx + 1)

analyze_tasks(playbook_path, tasks) ==
    IF ~isinstance_list(tasks) THEN <<>> ELSE tasks_from(playbook_path, tasks.e, 0)

RECURSIVE state_issues(_, _, _)
\* The inner loop of _check_idempotence over the module names from index m on.
state_issues(playbook_path, task, m) ==
    IF m > Len(StateModules) THEN <<>>
    ELSE (IF HasKey(task, StateModules[m])
             /\ isinstance_dict(Get(task, StateModules[m]))
             /\ ~HasKey(Get(task, StateModules[m]), "state")
          THEN <<Issue(playbook_path, 1, "info", "idempotence",
                       <<StateModules[m], " task should explicitly set 'state' parameter">>,
                       <<"Add 'state: present' or 'state: started' etc.">>)>>
          ELSE <<>>)
         \o state_issues(playbook_path, task, m + 1)

RECURSIVE idempotence_from(_, _)
idempotence_from(playbook_path, tasks) ==
    IF tasks = <<>> THEN <<>>
    ELSE (IF isinstance_dict(Head(tasks)) THEN state_issues(playbook_path, Head(tasks), 1)
          ELSE <<>>)
         \o idempotence_from(playbook_path, Tail(tasks))

\* "for x in v": a list gives its elements; a dict gives its keys and a str
\* its characters, none of which is a dict; None, a bool or an int raises
\* TypeError.
Iterable(v) == v.t \in {"seq", "map", "str"}

Elements(v) == IF v.t = "seq" THEN v.e ELSE <<>>

check_idempotence(playbook_path, play) ==
    IF ~HasKey(play, "tasks") THEN Done(<<>>)
    ELSE IF ~Iterable(Get(play, "tasks")) THEN Raised(<<>>, "other")
    ELSE Done(idempotence_from(playbook_path, Elements(Get(play, "tasks"))))

\* The body of the loop over the plays, for the play at 0-based index play_idx.
play_result(playbook_path, play, play_idx) ==
    IF ~isinstance_dict(play) THEN Done(<<>>)
    ELSE AndThen(
           Done((IF ~HasKey(play, "name")
                 THEN <<Issue(playbook_path, play_idx + 1, "warning", "maintainability",
                              <<"Play should have a descriptive name">>,
                              <<"Add 'name: <description>' to the play">>)>>
                 ELSE <<>>)
                \o (IF HasKey(play, "tasks")
                    THEN analyze_tasks(playbook_path, Get(play, "tasks"))
                    ELSE <<>>)),
           check_idempotence(playbook_path, play))

RECURSIVE plays_from(_, _, _)
plays_from(playbook_path, plays, play_idx) ==
    IF play_idx >= Len(plays) THEN Done(<<>>)
    ELSE AndThen(play_result(playbook_path, plays[play_idx + 1], play_idx),
                 plays_from(playbook_path, plays, play_idx + 1))

\* A file of the tree: its path (a sequence of components below the root),
\* what reading it does ("ok", "oserror" when open or read fails, "yamlerror"
\* when yaml.safe_load rejects the text) and the parsed document.
File(path, io, data) == [path |-> path, io |-> io, data |-> data]

\* _analyze_playbook up to its except clauses.
playbook_body(f) ==
    IF f.io = "oserror" THEN Raised(<<>>, "other")
    ELSE IF f.io = "yamlerror" THEN Raised(<<>>, "yaml")
    ELSE IF ~Truthy(f.data) THEN Done(<<>>)
    ELSE IF ~isinstance_list(f.data)
         THEN Done(<<Issue(f.path, 1, "error", "maintainability",
                           <<"Playbook must be a list of plays">>, <<>>)>>)
    ELSE plays_from(f.path, f.data.e, 0)

\* The except clauses with a YAML error only printed, like any other error.
handle_exceptions_printed(path, r) == r.iss

\* The except clauses shared by _analyze_playbook and _analyze_compose_file:
\* yaml.YAMLError adds one issue, any other exception is printed to stderr.
handle_exceptions(path, r) ==
    IF r.exc = "yaml"
    THEN r.iss \o <<Issue(path, 1, "error", "maintainability",
                          <<"YAML parsing error: ", "e">>, <<>>)>>
    ELSE r.iss

\* The issues one call of _analyze_playbook appends to self.issues.
analyze_playbook(f) == handle_exceptions(f.path, playbook_body(f))

(***************************************************************************)
(* Compose rule evaluators.                                                *)
(***************************************************************************)
DockerSocket == "/var/run/docker.sock"

ComposeName == "docker-compose.yml"

StacksName == "stacks"

ProxyService == "docker-socket-proxy"

PathName(path) == path[Len(path)]

ParentName(path) == path[Len(path) - 1]

is_root_orchestrator(compose_path) ==
    PathName(compose_path) = ComposeName /\ ParentName(compose_path) = StacksName

\* "key in data" is defined for a dict (a key), a list (an element) and a
\* str (a substring); for a bool or an int it raises TypeError.
Container(data) == data.t \in {"map", "seq", "str"}

In(key, data) ==
    CASE data.t = "map" -> HasKey(data, key)
      [] data.t = "seq" -> \E i \in 1..Len(data.e) : data.e[i] = YStr(<<key>>)
      [] OTHER -> Contains(data.s, key)

RECURSIVE network_issues(_, _)
\* The loop over data["networks"].items().
network_issues(compose_path, networks) ==
    IF networks = <<>> THEN <<>>
    ELSE (IF isinstance_dict(Head(networks).v)
             /\ ~Truthy(GetOr(Head(networks).v, "external", YBool(FALSE)))
             /\ ~is_root_orchestrator(compose_path)
          THEN <<Issue(compose_path, 1, "error", "standards",
                       <<"Only root orchestrator can define networks (found: ",
                         Head(networks).k, ")">>,
                       <<"Use 'external: true' or move network definition to root orchestrator">>)>>
          ELSE <<>>)
         \o network_issues(compose_path, Tail(networks))

\* The "networks" block of _analyze_compose_file.
compose_networks(compose_path, data) ==
    IF ~Container(data) THEN Raised(<<>>, "other")
    ELSE IF ~In("networks", data) THEN Done(<<>>)
    ELSE IF ~isinstance_dict(data) THEN Raised(<<>>, "other")
    ELSE IF ~isinstance_dict(Get(data, "networks")) THEN Raised(<<>>, "other")
    ELSE Done(network_issues(compose_path, Get(data, "networks").e))

RECURSIVE KeysOf(_)
KeysOf(pairs) ==
    IF pairs = <<>> THEN <<>> ELSE <<YStr(<<Head(pairs).k>>)>> \o KeysOf(Tail(pairs))

\* The values "for volume in volumes" visits: the characters of a str are
\* single characters, which never contain the socket path.
Volumes(v) == IF v.t = "seq" THEN v.e ELSE IF v.t = "map" THEN KeysOf(v.e) ELSE <<>>

RECURSIVE volume_issues(_, _, _)
volume_issues(compose_path, service_name, volumes) ==
    IF volumes = <<>> THEN <<>>
    ELSE (IF isinstance_str(Head(volumes))
             /\ Contains(Head(volumes).s, DockerSocket)
             /\ service_name # ProxyService
          THEN <<Issue(compose_path, 1, "error", "standards",
                       <<"Service '", service_name, "' accesses Docker socket directly">>,
                       <<"Use docker-socket-proxy service instead: DOCKER_HOST=tcp://docker-socket-proxy:2375">>)>>
          ELSE <<>>)
         \o volume_issues(compose_path, service_name, Tail(volumes))

RECURSIVE socket_from(_, _)
\* The loop over data["services"].items() of _analyze_compose_file.
socket_from(compose_path, services) ==
    IF services = <<>> THEN Done(<<>>)
    ELSE IF ~isinstance_dict(Head(services).v) THEN socket_from(compose_path, Tail(services))
    ELSE IF ~Iterable(GetOr(Head(services).v, "volumes", YList(<<>>)))
         THEN Raised(<<>>, "other")
    ELSE AndThen(Done(volume_issues(compose_path, Head(services).k,
                                    Volumes(GetOr(Head(services).v, "volumes", YList(<<>>))))),
                 socket_from(compose_path, Tail(services)))

\* The "services" block of _analyze_compose_file.
compose_services(compose_path, data) ==
    IF ~In("services", data) THEN Done(<<>>)
    ELSE IF ~isinstance_dict(data) THEN Raised(<<>>, "other")
    ELSE IF ~isinstance_dict(Get(data, "services")) THEN Raised(<<>>, "other")
    ELSE socket_from(compose_path, Get(data, "services").e)

RECURSIVE security_from(_, _)
security_from(compose_path, services) ==
    IF services = <<>> THEN <<>>
    ELSE (IF ~isinstance_dict(Head(services).v) THEN <<>>
          ELSE (IF Truthy(GetOr(Head(services).v, "privileged", YBool(FALSE)))
                THEN <<Issue(compose_path, 1, "warning", "standards",
                             <<"Service '", Head(services).k, "' uses privileged mode">>,
                             <<"Avoid privileged mode; use specific capabilities instead">>)>>
                ELSE <<>>)
               \o
               (IF GetOr(Head(services).v, "network_mode", YNull) = YStr(<<"host">>)
                THEN <<Issue(compose_path, 1, "warning", "standards",
                             <<"Service '", Head(services).k, "' uses host network mode">>,
                             <<"Use bridge networking and port mappings instead">>)>>
                ELSE <<>>))
         \o security_from(compose_path, Tail(services))

check_compose_security(compose_path, data) ==
    IF ~In("services", data) THEN Done(<<>>)
    ELSE IF ~isinstance_dict(data) THEN Raised(<<>>, "other")
    ELSE IF ~isinstance_dict(Get(data, "services")) THEN Raised(<<>>, "other")
    ELSE Done(security_from(compose_path, Get(data, "services").e))

\* _analyze_compose_file up to its except clauses.
compose_body(f) ==
    IF f.io = "oserror" THEN Raised(<<>>, "other")
    ELSE IF f.io = "yamlerror" THEN Raised(<<>>, "yaml")
    ELSE IF ~Truthy(f.data) THEN Done(<<>>)
    ELSE AndThen(compose_networks(f.path, f.data),
                 AndThen(compose_services(f.path, f.data),
                         check_compose_security(f.path, f.data)))

\* The issues one call of _analyze_compose_file appends to self.issues.
analyze_compose_file(f) == handle_exceptions(f.path, compose_body(f))

(***************************************************************************)
(* Scorer and summarizer.                                                  *)
(***************************************************************************)
ErrorDeduction == 10

WarningDeduction == 5

InfoDeduction == 2

FullScore == 100

AtomicityWeight == 25

IdempotenceWeight == 30

MaintainabilityWeight == 20

StandardsWeight == 25

\* The pass mark of main, 80, in hundredths.
PassMark == 8000

Max(a, b) == IF a >= b THEN a ELSE b

RECURSIVE SelectCategory(_, _)
\* category_issues[category] after the loop over self.issues.
SelectCategory(iss, category) ==
    IF iss = <<>> THEN <<>>
    ELSE (IF Head(iss).category = category THEN <<Head(iss)>> ELSE <<>>)
         \o SelectCategory(Tail(iss), category)

\* The deduction table with an error counted as a warning.
Deduction_error_as_warning(severity) ==
    CASE severity = "error" -> WarningDeduction
      [] severity = "warning" -> WarningDeduction
      [] severity = "info" -> InfoDeduction
      [] OTHER -> 0

Deduction(severity) ==
    CASE severity = "error" -> ErrorDeduction
      [] severity = "warning" -> WarningDeduction
      [] severity = "info" -> InfoDeduction
      [] OTHER -> 0

\* The loop of calc_score with "score = 100 - deduction" for "score -= deduction":
\* the last issue alone decides.
fold_score_assigned(iss, score) ==
    IF iss = <<>> THEN score ELSE FullScore - Deduction(iss[Len(iss)].severity)

RECURSIVE fold_score(_, _)
\* The loop of calc_score with the running score.
fold_score(iss, score) ==
    IF iss = <<>> THEN score
    ELSE fold_score(Tail(iss), score - Deduction(Head(iss).severity))

\* calc_score without the floor.
calc_score_unclamped(iss) == fold_score(iss, FullScore)

calc_score(iss) == Max(0, fold_score(iss, FullScore))

\* The overall score as the plain mean of the four scores.
weighted_mean(atomicity, idempotence, maintainability, standards) ==
    (atomicity + idempotence + maintainability + standards) * 25

\* The overall score in hundredths.
weighted(atomicity, idempotence, maintainability, standards) ==
    atomicity * AtomicityWeight + idempotence * IdempotenceWeight
    + maintainability * MaintainabilityWeight + standards * StandardsWeight

\* _calculate_scores with the overall score left as it was.
calculate_scores_stale_overall(rep, iss) ==
    [rep EXCEPT !.atomicity_score = calc_score(SelectCategory(iss, "atomicity")),
                !.idempotence_score = calc_score(SelectCategory(iss, "idempotence")),
                !.maintainability_score = calc_score(SelectCategory(iss, "maintainability")),
                !.standards_score = calc_score(SelectCategory(iss, "standards"))]

\* _calculate_scores: the report with its five scores recomputed.
calculate_scores(rep, iss) ==
    LET a == calc_score(SelectCategory(iss, "atomicity"))
        i == calc_score(SelectCategory(iss, "idempotence"))
        m == calc_score(SelectCategory(iss, "maintainability"))
        s == calc_score(SelectCategory(iss, "standards"))
    IN [rep EXCEPT !.atomicity_score = a,
                   !.idempotence_score = i,
                   !.maintainability_score = m,
                   !.standards_score = s,
                   !.overall_score = weighted(a, i, m, s)]

RECURSIVE count_by_no_info(_, _)
\* The counting loops with the info bucket left out of by_severity.
count_by_no_info(iss, counts) ==
    IF iss = <<>> THEN counts
    ELSE count_by_no_info(Tail(iss),
                  [counts EXCEPT
                     !.by_severity[Head(iss).severity] =
                         IF Head(iss).severity = "info" THEN @ ELSE @ + 1,
                     !.by_category[Head(iss).category] = @ + 1])

RECURSIVE count_by(_, _)
\* The two counting loops of _generate_summary, one issue at a time.
count_by(iss, counts) ==
    IF iss = <<>> THEN counts
    ELSE count_by(Tail(iss),
                  [counts EXCEPT
                     !.by_severity[Head(iss).severity] = @ + 1,
                     !.by_category[Head(iss).category] = @ + 1])

EmptySummary ==
    [present |-> FALSE, total_issues |-> 0,
     by_severity |-> [s \in Severities |-> 0],
     by_category |-> [c \in Categories |-> 0]]

\* _generate_summary: the summary dict it stores in the report.
generate_summary(iss) ==
    LET counts == count_by(iss, [by_severity |-> [s \in Severities |-> 0],
                                 by_category |-> [c \in Categories |-> 0]])
    IN [present |-> TRUE, total_issues |-> Len(iss),
        by_severity |-> counts.by_severity,
        by_category |-> counts.by_category]

\* AnalysisReport(timestamp=...): the dataclass defaults.  issues_linked tells
\* whether report.issues is the analyzer's own list (after analyze_project
\* assigned it) or still the empty default list.
AnalysisReport(timestamp) ==
    [timestamp |-> timestamp,
     atomicity_score |-> FullScore,
     idempotence_score |-> FullScore,
     maintainability_score |-> FullScore,
     standards_score |-> FullScore,
     overall_score |-> FullScore * 100,
     issues_linked |-> FALSE,
     files_analyzed |-> 0,
     summary |-> EmptySummary]

(***************************************************************************)
(* The documents of the project tree.                                      *)
(***************************************************************************)
Text(t) == YStr(<<t>>)

RECURSIVE Repeat(_, _)
Repeat(x, n) == IF n <= 0 THEN <<>> ELSE <<x>> \o Repeat(x, n - 1)

T_docker ==
    YMap(<<KV("name", Text("Pull Traefik image")),
           KV("community.docker.docker_image", YMap(<<KV("name", Text("traefik:v3.2"))>>))>>)

T_apt_shell ==
    YMap(<<KV("name", Text("Refresh package cache")), KV("shell", YStr(<<"apt", " update">>))>>)

T_unnamed_shell == YMap(<<KV("shell", YStr(<<"systemctl", " restart traefik">>))>>)

T_changed_when ==
    YMap(<<KV("name", Text("List files")), KV("command", Text("ls")),
           KV("changed_when", Text("false"))>>)

T_apt_no_state ==
    YMap(<<KV("name", Text("Install curl")), KV("apt", YMap(<<KV("name", Text("curl"))>>))>>)

NamedPlay(tasks) ==
    YMap(<<KV("name", Text("Deploy Traefik stack")), KV("hosts", Text("traefik")),
           KV("tasks", tasks)>>)

UnnamedPlay == YMap(<<KV("hosts", Text("db"))>>)

\* The contents a playbook file has: what reading gives and the document.
PlaybookContents ==
    { [io |-> "ok", data |-> YList(<<NamedPlay(YList(<<T_docker, T_changed_when>>))>>)],
      [io |-> "ok", data |-> YList(<<NamedPlay(YList(<<T_docker, T_apt_shell, T_unnamed_shell>>))>>)],
      [io |-> "ok", data |-> YList(<<NamedPlay(YList(<<T_apt_no_state>>)), Text("note"), UnnamedPlay>>)],
      [io |-> "ok", data |-> YList(<<YMap(<<KV("hosts", Text("web")), KV("tasks", YNull)>>), UnnamedPlay,
                                     NamedPlay(YList(<<T_unnamed_shell>>))>>)],
      [io |-> "ok", data |-> YNull],
      [io |-> "ok", data |-> YMap(<<KV("hosts", Text("all"))>>)],
      [io |-> "ok", data |-> YMap(<<>>)],
      [io |-> "oserror", data |-> YNull],
      [io |-> "yamlerror", data |-> YNull] }

SocketVolume == YStr(<<DockerSocket, ":", DockerSocket>>)

S_socket == YMap(<<KV("image", Text("traefik:v3.2")), KV("volumes", YList(<<SocketVolume>>))>>)

S_host == YMap(<<KV("image", Text("oauth2-proxy")), KV("network_mode", Text("host"))>>)

S_privileged == YMap(<<KV("image", Text("traefik:v3.2")), KV("privileged", YBool(TRUE))>>)

S_privileged_no_volumes ==
    YMap(<<KV("image", Text("traefik:v3.2")), KV("volumes", YNull), KV("privileged", YBool(TRUE))>>)

NullNetworks == YMap(<<KV("traefik", YNull), KV("socket-proxy", YNull)>>)

RECURSIVE Numbered(_, _)
\* n services of the same shape under the names "1".."n".
Numbered(service, n) ==
    IF n <= 0 THEN <<>> ELSE Numbered(service, n - 1) \o <<KV(ToString(n), service)>>

\* The contents a compose file has.
ComposeContents ==
    { [io |-> "ok", data |-> YMap(<<KV("services", YMap(<<KV("traefik", S_socket),
                                                          KV("traefik-oauth2-proxy", S_host)>>)),
                                    KV("networks", NullNetworks)>>)],
      [io |-> "ok", data |-> YMap(<<KV("networks",
                                       YMap(<<KV("backend", YMap(<<KV("driver", Text("bridge"))>>)),
                                              KV("shared", YMap(<<KV("external", YBool(TRUE))>>))>>)),
                                    KV("services", YMap(<<KV(ProxyService, S_socket),
                                                          KV("app", S_privileged)>>))>>)],
      [io |-> "ok", data |-> YMap(<<KV("services", YMap(Numbered(S_socket, MaxServices)))>>)],
      [io |-> "ok", data |-> YMap(<<KV("services",
                                       YMap(<<KV("app", S_privileged_no_volumes)>>))>>)],
      [io |-> "ok", data |-> YMap(<<KV("networks", YNull),
                                    KV("services", YMap(<<KV("app", S_host),
                                                          KV("web", S_socket)>>))>>)],
      [io |-> "oserror", data |-> YNull],
      [io |-> "yamlerror", data |-> YNull] }

\* Where a compose file lies below the stacks directory.
ComposePlaces == {"root", "app", "nested"}

PlaybookPath(i) == <<"playbooks", ToString(i), "site.yml">>

ComposePath(place, j) ==
    CASE place = "root" -> <<StacksName, ComposeName>>
      [] place = "app" -> <<StacksName, ToString(j), ComposeName>>
      [] OTHER -> <<StacksName, ToString(j), StacksName, ComposeName>>

\* The listings of playbooks/**/*.yml with n files, in the order rglob
\* yields them.
PlaybookListings(n) ==
    { [i \in 1..n |-> File(PlaybookPath(i), cs[i].io, cs[i].data)] :
        cs \in [1..n -> PlaybookContents] }

\* The listings of stacks/**/docker-compose.yml with n files, in the order
\* rglob yields them; a tree has one file stacks/docker-compose.yml at most.
ComposeListings(n) ==
    { [j \in 1..n |-> File(ComposePath(cs[j][1], j), cs[j][2].io, cs[j][2].data)] :
        cs \in { c \in [1..n -> ComposePlaces \X ComposeContents] :
                   Cardinality({ j \in 1..n : c[j][1] = "root" }) <= 1 } }

\* The project trees with np playbooks and nc compose files; a directory
\* that lists no file may also not exist.
Trees(np, nc) ==
    { [root_exists |-> TRUE, playbooks_exists |-> pe, stacks_exists |-> se,
       playbooks |-> pl, composes |-> cl] :
        pe \in (IF np = 0 THEN BOOLEAN ELSE {TRUE}),
        se \in (IF nc = 0 THEN BOOLEAN ELSE {TRUE}),
        pl \in PlaybookListings(np), cl \in ComposeListings(nc) }

\* The tree of a root path that does not exist: nothing exists below it.
MissingRoot ==
    [root_exists |-> FALSE, playbooks_exists |-> FALSE, stacks_exists |-> FALSE,
     playbooks |-> <<>>, composes |-> <<>>]

FileSystems ==
    UNION { UNION { Trees(np, nc) : nc \in 0..(MaxFiles - np) } : np \in 0..MaxFiles }
    \cup {MissingRoot}

(***************************************************************************)
(* The analyzer and main as a state machine.                               *)
(*   fs          the project tree, unchanged by the analyzer               *)
(*   pc          where analyze_project (and main around it) stands         *)
(*   todo        the files the running rglob loop has still to yield       *)
(*   issues      self.issues                                               *)
(*   report      self.report; report.issues is self.issues once linked     *)
(*   fresh       the current run began on a newly constructed analyzer     *)
(*   clock       the time _get_timestamp read last                         *)
(*   runs        the number of analyze_project calls begun                 *)
(*   returned    the reports as they were when analyze_project returned    *)
(*   exit_status what main returned: "none", "0", "1", or "raised"         *)
(*   adds        the number of direct _add_issue calls of a caller that    *)
(*               drives the analyzer method by method                      *)
(***************************************************************************)
\* report.issues as a reader of the report sees it.
ReportIssues == IF report.issues_linked THEN issues ELSE <<>>

\* The report object as analyze_project hands it to its caller.
Snapshot ==
    [timestamp |-> report.timestamp,
     atomicity_score |-> report.atomicity_score,
     idempotence_score |-> report.idempotence_score,
     maintainability_score |-> report.maintainability_score,
     standards_score |-> report.standards_score,
     overall_score |-> report.overall_score,
     issues |-> issues,
     files_analyzed |-> report.files_analyzed,
     summary |-> report.summary,
     fresh |-> fresh]

Init ==
    /\ fs \in FileSystems
    /\ pc = "idle"
    /\ todo = <<>>
    /\ issues = <<>>
    /\ report = AnalysisReport(1)
    /\ fresh = TRUE
    /\ clock = 1
    /\ runs = 0
    /\ returned = <<>>
    /\ exit_status = "none"
    /\ adds = 0

\* The constructor with the issues list shared between the analyzers.
NewAnalyzerSharedIssues ==
    /\ pc = "exited"
    /\ runs < MaxRuns
    /\ clock' = clock + 1
    /\ report' = AnalysisReport(clock + 1)
    /\ fresh' = TRUE
    /\ exit_status' = "none"
    /\ pc' = "idle"
    /\ UNCHANGED <<fs, todo, issues, runs, returned, adds>>

\* IaCAnalyzer(): main of a later process constructs its analyzer.
NewAnalyzer ==
    /\ pc = "exited"
    /\ runs < MaxRuns
    /\ clock' = clock + 1
    /\ report' = AnalysisReport(clock + 1)
    /\ issues' = <<>>
    /\ fresh' = TRUE
    /\ exit_status' = "none"
    /\ pc' = "idle"
    /\ UNCHANGED <<fs, todo, runs, returned, adds>>

\* analyze_project listing the playbooks directory without the exists()
\* test: a missing directory raises out of the run.
AnalyzeStartMissingRaises ==
    /\ pc \in {"idle", "done"}
    /\ runs < MaxRuns
    /\ runs' = runs + 1
    /\ fresh' = (pc = "idle")
    /\ todo' = fs.playbooks
    /\ pc' = IF fs.playbooks_exists THEN "playbooks" ELSE "exited"
    /\ exit_status' = IF fs.playbooks_exists THEN exit_status ELSE "raised"
    /\ UNCHANGED <<fs, issues, report, clock, returned, adds>>

\* analyze_project entered, on a new analyzer or again on the same one, up
\* to the start of the loop over the playbooks.
AnalyzeStart ==
    /\ pc \in {"idle", "done"}
    /\ runs < MaxRuns
    /\ runs' = runs + 1
    /\ fresh' = (pc = "idle")
    /\ todo' = IF fs.playbooks_exists THEN fs.playbooks ELSE <<>>
    /\ pc' = "playbooks"
    /\ UNCHANGED <<fs, issues, report, clock, returned, exit_status, adds>>

\* One round of the playbook loop with self.issues assigned the issues of the
\* file instead of extended by them.
ScanPlaybookAssigns ==
    /\ pc = "playbooks"
    /\ todo # <<>>
    /\ issues' = analyze_playbook(Head(todo))
    /\ report' = [report EXCEPT !.files_analyzed = @ + 1]
    /\ todo' = Tail(todo)
    /\ UNCHANGED <<fs, pc, fresh, clock, runs, returned, exit_status, adds>>

\* One round of the loop over playbook_dir.rglob("*.yml").
ScanPlaybook ==
    /\ pc = "playbooks"
    /\ todo # <<>>
    /\ issues' = issues \o analyze_playbook(Head(todo))
    /\ report' = [report EXCEPT !.files_analyzed = @ + 1]
    /\ todo' = Tail(todo)
    /\ UNCHANGED <<fs, pc, fresh, clock, runs, returned, exit_status, adds>>

\* The playbook loop is over; the loop over the compose files starts.
StartCompose ==
    /\ pc = "playbooks"
    /\ todo = <<>>
    /\ todo' = IF fs.stacks_exists THEN fs.composes ELSE <<>>
    /\ pc' = "compose"
    /\ UNCHANGED <<fs, issues, report, fresh, clock, runs, returned, exit_status, adds>>

\* One round of the loop over stacks_dir.rglob("docker-compose.yml").
ScanCompose ==
    /\ pc = "compose"
    /\ todo # <<>>
    /\ issues' = issues \o analyze_compose_file(Head(todo))
    /\ report' = [report EXCEPT !.files_analyzed = @ + 1]
    /\ todo' = Tail(todo)
    /\ UNCHANGED <<fs, pc, fresh, clock, runs, returned, exit_status, adds>>

\* _calculate_scores called inside the loop over the compose files.
CalculateScoresInLoop ==
    /\ pc = "compose"
    /\ report' = calculate_scores(report, issues)
    /\ pc' = "scored"
    /\ UNCHANGED <<fs, todo, issues, fresh, clock, runs, returned, exit_status, adds>>

CalculateScores ==
    /\ pc = "compose"
    /\ todo = <<>>
    /\ report' = calculate_scores(report, issues)
    /\ pc' = "scored"
    /\ UNCHANGED <<fs, todo, issues, fresh, clock, runs, returned, exit_status, adds>>

GenerateSummary ==
    /\ pc = "scored"
    /\ report' = [report EXCEPT !.summary = generate_summary(issues)]
    /\ pc' = "summarized"
    /\ UNCHANGED <<fs, todo, issues, fresh, clock, runs, returned, exit_status, adds>>

\* self.report.issues = self.issues; return self.report
ReturnReport ==
    /\ pc = "summarized"
    /\ report' = [report EXCEPT !.issues_linked = TRUE]
    /\ returned' = Append(returned, Snapshot)
    /\ pc' = "done"
    /\ UNCHANGED <<fs, todo, issues, fresh, clock, runs, exit_status, adds>>

\* The exit status decided by the presence of error findings.
exit_code_on_errors(rep) == IF rep.summary.by_severity["error"] = 0 THEN "0" ELSE "1"

\* The value main returns after it wrote the report.
exit_code(rep) == IF rep.overall_score >= PassMark THEN "0" ELSE "1"

\* main after analyze_project: it writes the report, which raises when the
\* output file cannot be written, and returns the exit status.
MainReturn ==
    /\ pc = "done"
    /\ fresh
    /\ \E written \in BOOLEAN :
         exit_status' = IF written THEN exit_code(report) ELSE "raised"
    /\ pc' = "exited"
    /\ UNCHANGED <<fs, todo, issues, report, fresh, clock, runs, returned, adds>>

Next ==
    \/ NewAnalyzer
    \/ AnalyzeStart
    \/ ScanPlaybook
    \/ StartCompose
    \/ ScanCompose
    \/ CalculateScores
    \/ GenerateSummary
    \/ ReturnReport
    \/ MainReturn

Spec == Init /\ [][Next]_vars

(***************************************************************************)
(* The analyzer driven method by method, as tests/test_analyze_iac.py      *)
(* drives it: _add_issue, _calculate_scores and _generate_summary called   *)
(* directly on an analyzer that holds issues already.                      *)
(***************************************************************************)
\* _add_issue: self.issues after the call.
add_issue(iss, file, line, severity, category, message, fix_suggestion) ==
    Append(iss, Issue(file, line, severity, category, message, fix_suggestion))

UnitPath == <<"playbooks", "example.yml">>

UnitIssue(severity, category) ==
    Issue(UnitPath, 3, severity, category, <<"message">>, <<"fix">>)

EmptyTree ==
    [root_exists |-> TRUE, playbooks_exists |-> FALSE, stacks_exists |-> FALSE,
     playbooks |-> <<>>, composes |-> <<>>]

UnitInputs ==
    { Repeat(UnitIssue(severity, category), n) :
        severity \in Severities, category \in Categories, n \in 0..MaxBulk }

UnitInit ==
    /\ fs = EmptyTree
    /\ pc = "unit"
    /\ todo = <<>>
    /\ issues \in UnitInputs
    /\ report = AnalysisReport(1)
    /\ fresh = TRUE
    /\ clock = 1
    /\ runs = 0
    /\ returned = <<>>
    /\ exit_status = "none"
    /\ adds = 0

UnitAddIssue ==
    /\ pc \in {"unit", "unit_scored"}
    /\ adds < MaxAdds
    /\ \E severity \in Severities, category \in Categories :
         issues' = add_issue(issues, UnitPath, 3, severity, category, <<"message">>, <<"fix">>)
    /\ adds' = adds + 1
    /\ pc' = "unit"
    /\ UNCHANGED <<fs, todo, report, fresh, clock, runs, returned, exit_status>>

UnitCalculateScores ==
    /\ pc = "unit"
    /\ report' = calculate_scores(report, issues)
    /\ pc' = "unit_scored"
    /\ UNCHANGED <<fs, todo, issues, fresh, clock, runs, returned, exit_status, adds>>

UnitGenerateSummary ==
    /\ pc \in {"unit", "unit_scored"}
    /\ report' = [report EXCEPT !.summary = generate_summary(issues)]
    /\ UNCHANGED <<fs, pc, todo, issues, fresh, clock, runs, returned, exit_status, adds>>

NextUnit ==
    \/ UnitAddIssue
    \/ UnitCalculateScores
    \/ UnitGenerateSummary

SpecUnit == UnitInit /\ [][NextUnit]_vars

(***************************************************************************)
(* _calculate_scores and _generate_summary applied to an analyzer that     *)
(* holds any short sequence of issues of the twelve severity/category      *)
(* kinds, in any order.                                                    *)
(***************************************************************************)
PermKinds == { UnitIssue(severity, category) : severity \in Severities, category \in Categories }

PermInputs == UNION { [1..n -> PermKinds] : n \in 0..MaxPermLen }

PermInit ==
    /\ fs = EmptyTree
    /\ pc = "perm"
    /\ todo = <<>>
    /\ issues \in PermInputs
    /\ report = AnalysisReport(1)
    /\ fresh = TRUE
    /\ clock = 1
    /\ runs = 0
    /\ returned = <<>>
    /\ exit_status = "none"
    /\ adds = 0

PermCalculateScores ==
    /\ pc = "perm"
    /\ report' = calculate_scores(report, issues)
    /\ pc' = "perm_scored"
    /\ UNCHANGED <<fs, todo, issues, fresh, clock, runs, returned, exit_status, adds>>

PermGenerateSummary ==
    /\ pc = "perm_scored"
    /\ report' = [report EXCEPT !.summary = generate_summary(issues)]
    /\ pc' = "perm_summarized"
    /\ UNCHANGED <<fs, todo, issues, fresh, clock, runs, returned, exit_status, adds>>

NextPerm ==
    \/ PermCalculateScores
    \/ PermGenerateSummary

SpecPerm == PermInit /\ [][NextPerm]_vars

(***************************************************************************)
(* Properties.                                                             *)
(***************************************************************************)
ScoreOf(rep, category) ==
    CASE category = "atomicity" -> rep.atomicity_score
      [] category = "idempotence" -> rep.idempotence_score
      [] category = "maintainability" -> rep.maintainability_score
      [] OTHER -> rep.standards_score

\* The number of issues of a sequence with the category and the severity.
Count(iss, category, severity) ==
    Cardinality({ i \in 1..Len(iss) :
                    iss[i].category = category /\ iss[i].severity = severity })

\* The scores of a report were computed from the issues the analyzer holds.
ScoresCurrent == pc \in {"scored", "summarized", "done", "exited", "unit_scored"}

\* C1: in every report analyze_project returned, the four category scores
\* lie in [0, 100] and the overall score (in hundredths) in [0, 10000].
C1_ScoresInRange ==
    \A k \in 1..Len(returned) :
        /\ \A c \in Categories : ScoreOf(returned[k], c) \in 0..100
        /\ returned[k].overall_score \in 0..10000

\* A report was returned whose standards issues deduct more than 100
\* points, so that the floor is what keeps the score in range.
C1_Witness ==
    \E k \in 1..Len(returned) :
        /\ returned[k].standards_score = 0
        /\ Count(returned[k].issues, "standards", "error") > 10
        /\ returned[k].overall_score < 10000

\* C2: in every report analyze_project returned, summary total_issues is
\* the length of the report's issues and the three by_severity counts sum
\* to it.
C2_SummaryTotals ==
    \A k \in 1..Len(returned) :
        /\ returned[k].summary.present
        /\ returned[k].summary.total_issues = Len(returned[k].issues)
        /\ returned[k].summary.by_severity["error"]
           + returned[k].summary.by_severity["warning"]
           + returned[k].summary.by_severity["info"]
           = returned[k].summary.total_issues

\* A report was returned that holds issues of all three severities.
C2_Witness ==
    \E k \in 1..Len(returned) :
        \A s \in Severities : \E i \in 1..Len(returned[k].issues) :
            returned[k].issues[i].severity = s

\* C3: once _calculate_scores has run, each category score is
\* max(0, 100 - 10 E - 5 W - 2 I) for the numbers E, W, I of error, warning
\* and info issues of that category; issues of other categories do not count.
C3_CategoryScore ==
    ScoresCurrent =>
        \A c \in Categories :
            ScoreOf(report, c) =
                Max(0, 100 - 10 * Count(issues, c, "error")
                           - 5 * Count(issues, c, "warning")
                           - 2 * Count(issues, c, "info"))

\* Scores were computed for issues of two categories, one of them with a
\* score strictly between the floor and 100.
C3_Witness ==
    /\ pc = "unit_scored"
    /\ \E c, d \in Categories :
         /\ c # d
         /\ ScoreOf(report, c) \in 1..99
         /\ \E i \in 1..Len(issues) : issues[i].category = d

\* C4: in every state the overall score of the report, and of every report
\* returned, is atomicity*0.25 + idempotence*0.30 + maintainability*0.20
\* + standards*0.25 of its own category scores, the weights summing to 1.
C4_OverallWeighted ==
    /\ AtomicityWeight + IdempotenceWeight + MaintainabilityWeight + StandardsWeight = 100
    /\ report.overall_score = 25 * report.atomicity_score + 30 * report.idempotence_score
                              + 20 * report.maintainability_score + 25 * report.standards_score
    /\ \A k \in 1..Len(returned) :
         returned[k].overall_score =
             25 * returned[k].atomicity_score + 30 * returned[k].idempotence_score
             + 20 * returned[k].maintainability_score + 25 * returned[k].standards_score

\* A report was returned whose four category scores differ from each other.
C4_Witness ==
    \E k \in 1..Len(returned) :
        \A c, d \in Categories : c # d => ScoreOf(returned[k], c) # ScoreOf(returned[k], d)

\* C5: when main returns, its status is 0 if the overall score of the
\* report is at least 80 and 1 otherwise, whatever errors the run met.
C5_ExitStatus ==
    (pc = "exited" /\ exit_status # "raised") =>
        /\ exit_status \in {"0", "1"}
        /\ (exit_status = "0") <=> (report.overall_score >= 8000)

\* main returned 0 for a run that met a file it could not parse and so
\* holds an error issue.
C5_Witness ==
    /\ pc = "exited"
    /\ exit_status = "0"
    /\ \E i \in 1..Len(fs.playbooks) : fs.playbooks[i].io = "yamlerror"
    /\ \E i \in 1..Len(issues) : issues[i].severity = "error"

\* C6: two runs of the analyzer, each on a newly constructed IaCAnalyzer,
\* over the unchanged tree return the same five scores and the same issues
\* in the same order.
C6_Deterministic ==
    \A j, k \in 1..Len(returned) :
        (returned[j].fresh /\ returned[k].fresh) =>
            /\ returned[j].issues = returned[k].issues
            /\ returned[j].overall_score = returned[k].overall_score
            /\ \A c \in Categories : ScoreOf(returned[j], c) = ScoreOf(returned[k], c)

\* Two runs on new analyzers returned reports with issues and with
\* different timestamps.
C6_Witness ==
    /\ Len(returned) = 2
    /\ returned[1].fresh /\ returned[2].fresh
    /\ returned[1].issues # <<>>
    /\ returned[1].timestamp # returned[2].timestamp

\* The score of a category once one more error issue of it is added.
ScoreWithOneMoreError(category) ==
    calc_score(SelectCategory(
        add_issue(issues, UnitPath, 1, "error", category, <<"message">>, <<>>), category))

\* C7 as stated: adding one more error issue to a category never raises the
\* category's score and lowers it by exactly 10 unless it is 0 already.
C7_AsStated ==
    ScoresCurrent =>
        \A c \in Categories :
            /\ ScoreWithOneMoreError(c) <= ScoreOf(report, c)
            /\ ScoreOf(report, c) # 0 => ScoreWithOneMoreError(c) = ScoreOf(report, c) - 10

\* C7 amended: adding one more error issue to a category never raises the
\* category's score; it lowers a score of at least 10 by exactly 10 and
\* takes a score below 10 to the floor 0.
C7_ErrorDeduction ==
    ScoresCurrent =>
        \A c \in Categories :
            /\ ScoreWithOneMoreError(c) <= ScoreOf(report, c)
            /\ ScoreOf(report, c) >= 10 => ScoreWithOneMoreError(c) = ScoreOf(report, c) - 10
            /\ ScoreOf(report, c) < 10 => ScoreWithOneMoreError(c) = 0

\* Scores were computed that leave a category strictly between 0 and 10.
C7_Witness ==
    /\ pc = "unit_scored"
    /\ \E c \in Categories : ScoreOf(report, c) \in 1..9

ScanStep == ScanPlaybook \/ ScanCompose

\* C8: analysing a playbook or compose file that is malformed YAML appends
\* exactly one issue (error, maintainability, line 1, that file) and the
\* loop goes on with the remaining files.
C8_ParseError ==
    [][(ScanStep /\ Head(todo).io = "yamlerror") =>
         /\ Len(issues') = Len(issues) + 1
         /\ SubSeq(issues', 1, Len(issues)) = issues
         /\ issues'[Len(issues')].severity = "error"
         /\ issues'[Len(issues')].category = "maintainability"
         /\ issues'[Len(issues')].line = 1
         /\ issues'[Len(issues')].file = Head(todo).path
         /\ todo' = Tail(todo)
         /\ pc' = pc]_vars

\* A run that met a malformed first playbook returned a report that holds
\* issues of the second playbook.
C8_Witness ==
    /\ pc = "done"
    /\ Len(fs.playbooks) = 2
    /\ fs.playbooks[1].io = "yamlerror"
    /\ \E i \in 1..Len(issues) : issues[i].file = fs.playbooks[2].path

\* The step analyses a file and meets an error other than a YAML error.
FailingScan ==
    \/ ScanPlaybook /\ playbook_body(Head(todo)).exc = "other"
    \/ ScanCompose /\ compose_body(Head(todo)).exc = "other"

\* C9 as stated: a file whose analysis fails with an error other than a
\* YAML parse error adds no issue and is not counted in files_analyzed,
\* and the loop goes on with the remaining files.
C9_AsStated ==
    [][FailingScan =>
         /\ issues' = issues
         /\ report'.files_analyzed = report.files_analyzed
         /\ todo' = Tail(todo)
         /\ pc' = pc]_vars

\* C10 as stated: a playbook whose parsed root is neither null nor a
\* sequence adds exactly one issue, an error of category maintainability.
C10_AsStated ==
    [][(ScanPlaybook /\ Head(todo).io = "ok" /\ Head(todo).data.t \notin {"null", "seq"}) =>
         /\ Len(issues') = Len(issues) + 1
         /\ SubSeq(issues', 1, Len(issues)) = issues
         /\ issues'[Len(issues')].severity = "error"
         /\ issues'[Len(issues')].category = "maintainability"]_vars

\* The issues a step appended to self.issues.
Appended == SubSeq(issues', Len(issues) + 1, Len(issues'))

\* The number of issues of a sequence of the severity and the category whose
\* message begins with the text.
Findings(iss, severity, category, text) ==
    Cardinality({ i \in 1..Len(iss) :
                    /\ iss[i].severity = severity
                    /\ iss[i].category = category
                    /\ iss[i].message[1] = text })

\* The path of the root orchestrator file below the project root.
RootOrchestratorPath == <<StacksName, ComposeName>>

\* The entries of a networks map whose definition is a map that does not
\* set external: true.
OwnedNetworks(networks) ==
    Cardinality({ i \in 1..Len(networks.e) :
                    /\ isinstance_dict(networks.e[i].v)
                    /\ GetOr(networks.e[i].v, "external", YBool(FALSE)) # YBool(TRUE) })

\* The step analyses a compose file that parsed to a map with a networks map.
ScanNetworks ==
    /\ ScanCompose
    /\ Head(todo).io = "ok"
    /\ isinstance_dict(Head(todo).data)
    /\ HasKey(Head(todo).data, "networks")
    /\ isinstance_dict(Get(Head(todo).data, "networks"))

\* C11 as stated: analysing a compose file other than stacks/docker-compose.yml
\* appends one error/standards finding for each entry of networks whose
\* definition is a map that does not set external: true, and analysing
\* stacks/docker-compose.yml appends none for its networks.
C11_AsStated ==
    [][ScanNetworks =>
         Findings(Appended, "error", "standards",
                  "Only root orchestrator can define networks (found: ")
           = IF Head(todo).path = RootOrchestratorPath THEN 0
             ELSE OwnedNetworks(Get(Head(todo).data, "networks"))]_vars

\* The step analyses a compose file that parsed to a map with a services map.
ScanServices ==
    /\ ScanCompose
    /\ Head(todo).io = "ok"
    /\ isinstance_dict(Head(todo).data)
    /\ HasKey(Head(todo).data, "services")
    /\ isinstance_dict(Get(Head(todo).data, "services"))

\* The services of the compose file the step analyses, as name/config pairs.
ScannedServices == Get(Head(todo).data, "services").e

\* The string entries of a service's volumes that contain the socket path.
SocketMounts(service_config) ==
    IF isinstance_dict(service_config)
    THEN LET volumes == GetOr(service_config, "volumes", YList(<<>>))
         IN  IF isinstance_list(volumes)
             THEN Cardinality({ j \in 1..Len(volumes.e) :
                                  /\ isinstance_str(volumes.e[j])
                                  /\ Contains(volumes.e[j].s, DockerSocket) })
             ELSE 0
    ELSE 0

\* The number of issues of a sequence of the severity and the category with
\* the message "Service '<name>'<text>".
ServiceFindings(iss, severity, category, service_name, text) ==
    Cardinality({ i \in 1..Len(iss) :
                    /\ iss[i].severity = severity
                    /\ iss[i].category = category
                    /\ iss[i].message = <<"Service '", service_name, text>> })

\* C12 as stated: analysing a compose file appends, for every service and
\* every string entry of its volumes that contains /var/run/docker.sock, one
\* error/standards finding if the service has another name than
\* docker-socket-proxy, and no finding for the mounts of docker-socket-proxy.
C12_AsStated ==
    [][ScanServices =>
         \A i \in 1..Len(ScannedServices) :
             ServiceFindings(Appended, "error", "standards", ScannedServices[i].k,
                             "' accesses Docker socket directly")
               = IF ScannedServices[i].k = ProxyService THEN 0
                 ELSE SocketMounts(ScannedServices[i].v)]_vars

\* The step analyses a playbook that parsed to a sequence.
ScanPlays ==
    /\ ScanPlaybook
    /\ Head(todo).io = "ok"
    /\ isinstance_list(Head(todo).data)

\* The tasks sequence of a play; empty when the play has none.
PlayTasks(play) ==
    IF isinstance_dict(play) /\ isinstance_list(GetOr(play, "tasks", YNull))
    THEN Get(play, "tasks").e
    ELSE <<>>

\* A task that contains shell, command or raw and no changed_when key.
UnguardedShell(task) ==
    /\ isinstance_dict(task)
    /\ HasKey(task, "shell") \/ HasKey(task, "command") \/ HasKey(task, "raw")
    /\ ~HasKey(task, "changed_when")

\* The (play, task) positions of a playbook that hold such a task.
UnguardedShellTasks(plays) ==
    UNION { { <<p, t>> : t \in { u \in 1..Len(PlayTasks(plays[p])) :
                                   UnguardedShell(PlayTasks(plays[p])[u]) } } :
            p \in 1..Len(plays) }

\* C13 as stated: analysing a playbook appends exactly one
\* warning/idempotence finding of the changed_when rule for every task of a
\* play's tasks sequence that contains shell, command or raw and no
\* changed_when key, and none for a task that has the changed_when key.
C13_AsStated ==
    [][ScanPlays =>
         Findings(Appended, "warning", "idempotence",
                  "shell/command/raw should define 'changed_when' for idempotence")
           = Cardinality(UnguardedShellTasks(Head(todo).data.e))]_vars

\* C14 as stated: analysing a compose file appends a warning/standards
\* finding for every service whose privileged value is truthy and one for
\* every service whose network_mode equals host, whatever the networks
\* section and the volumes entries of the file hold.
C14_AsStated ==
    [][ScanServices =>
         \A i \in 1..Len(ScannedServices) :
             isinstance_dict(ScannedServices[i].v) =>
                 /\ Truthy(GetOr(ScannedServices[i].v, "privileged", YBool(FALSE))) =>
                      ServiceFindings(Appended, "warning", "standards", ScannedServices[i].k,
                                      "' uses privileged mode") >= 1
                 /\ GetOr(ScannedServices[i].v, "network_mode", YNull) = Text("host") =>
                      ServiceFindings(Appended, "warning", "standards", ScannedServices[i].k,
                                      "' uses host network mode") >= 1]_vars

\* The findings, scores, summary and files_analyzed a reader finds in a
\* report.
Content(rep) ==
    <<rep.issues, rep.atomicity_score, rep.idempotence_score, rep.maintainability_score,
      rep.standards_score, rep.overall_score, rep.summary, rep.files_analyzed>>

\* The report object analyze_project returned last is the one the analyzer
\* still holds: no other analyzer was constructed since.
HoldsReturned ==
    /\ returned # <<>>
    /\ ~fresh \/ pc \in {"done", "exited"}

\* C15 as stated: every report analyze_project returns, also from a second
\* call on the same analyzer, holds the findings and the files_analyzed of
\* that run alone, which over the unchanged tree are those of the first
\* run; and a report that was returned keeps the findings, scores, summary
\* and files_analyzed it was returned with.
C15_AsStated ==
    /\ \A k \in 1..Len(returned) :
           /\ returned[k].files_analyzed = Len(fs.playbooks) + Len(fs.composes)
           /\ returned[k].issues = returned[1].issues
    /\ HoldsReturned => Content(Snapshot) = Content(returned[Len(returned)])

\* The compose files of the tree the code treats as the root orchestrator.
ExemptFiles ==
    { j \in 1..Len(fs.composes) : is_root_orchestrator(fs.composes[j].path) }

\* C16 as stated: a compose file is treated as the root orchestrator if and
\* only if it is docker-compose.yml directly in the stacks directory being
\* scanned, so at most one compose file of a run is exempt from the
\* network-ownership rule.
C16_AsStated ==
    pc = "done" =>
        /\ \A j \in 1..Len(fs.composes) :
               is_root_orchestrator(fs.composes[j].path)
                 <=> fs.composes[j].path = RootOrchestratorPath
        /\ Cardinality(ExemptFiles) <= 1

\* C17 as stated: when the root path does not exist, analyze_project returns
\* no report and main returns no exit status: the run fails.
C17_AsStated ==
    ~fs.root_exists => returned = <<>> /\ exit_status \notin {"0", "1"}

\* C18: under an existing root a missing playbooks directory, or a missing
\* stacks directory, is skipped without error: the phase is entered and left
\* with no file to scan and leaves the issues and the report as they were,
\* and the run goes on: the report of the first run counts the files of the
\* other phase only and has its summary generated over all the issues.
C18_MissingDirectories ==
    /\ [][/\ (AnalyzeStart /\ fs.root_exists /\ ~fs.playbooks_exists) =>
                (pc' = "playbooks" /\ todo' = <<>> /\ UNCHANGED <<issues, report, exit_status>>)
          /\ (StartCompose /\ fs.root_exists /\ ~fs.stacks_exists) =>
                (pc' = "compose" /\ todo' = <<>> /\ UNCHANGED <<issues, report, exit_status>>)]_vars
    /\ [](\A k \in 1..Len(returned) :
             (returned[k].fresh /\ fs.root_exists) =>
                 /\ ~fs.playbooks_exists => returned[k].files_analyzed = Len(fs.composes)
                 /\ ~fs.stacks_exists => returned[k].files_analyzed = Len(fs.playbooks)
                 /\ returned[k].summary.present
                 /\ returned[k].summary.total_issues = Len(returned[k].issues))

\* A run over a tree without a playbooks directory returned a report with
\* the findings of its compose files.
C18_Witness ==
    /\ pc = "done"
    /\ fs.root_exists
    /\ ~fs.playbooks_exists
    /\ report.files_analyzed >= 1
    /\ issues # <<>>
    /\ report.summary.present

\* C19: in every report analyze_project returned the overall score is
\* strictly less than 100 when the report has issues and exactly 100 when it
\* has none (the overall score is kept in hundredths).
C19_OverallBelowFull ==
    \A k \in 1..Len(returned) :
        /\ returned[k].issues # <<>> => returned[k].overall_score < FullScore * 100
        /\ returned[k].issues = <<>> => returned[k].overall_score = FullScore * 100

\* A report was returned whose only issue is one warning, and its overall
\* score is below 100.
C19_Witness ==
    \E k \in 1..Len(returned) :
        /\ Len(returned[k].issues) = 1
        /\ returned[k].issues[1].severity = "warning"
        /\ returned[k].overall_score < FullScore * 100

\* C20: every issue the analyzer holds, in every state of a run, has a
\* severity of error, warning or info, a category of atomicity, idempotence,
\* maintainability or standards, and a line number of at least 1.
C20_WellFormedIssues ==
    \A i \in 1..Len(issues) :
        /\ issues[i].severity \in Severities
        /\ issues[i].category \in Categories
        /\ issues[i].line \in Nat
        /\ issues[i].line >= 1

\* The analyzer holds issues of every severity, among them one for a later
\* task of a play (line 2 or more) and one for a compose file.
C20_Witness ==
    /\ \A s \in Severities : \E i \in 1..Len(issues) : issues[i].severity = s
    /\ \E i \in 1..Len(issues) : issues[i].line >= 2
    /\ \E i \in 1..Len(issues) : issues[i].file[1] = StacksName

\* The changes of phase of analyze_project and of main around it: Idle,
\* Scanning(playbooks), Scanning(compose), Scoring, Summarizing, Done, in
\* this order; from Done a caller starts the next run or main returns, and
\* a new analyzer is idle again.
PhaseChanges ==
    { <<"idle", "playbooks">>, <<"playbooks", "compose">>, <<"compose", "scored">>,
      <<"scored", "summarized">>, <<"summarized", "done">>,
      <<"done", "playbooks">>, <<"done", "exited">>, <<"exited", "idle">> }

\* The five scores of a report.
Scores(rep) ==
    <<rep.atomicity_score, rep.idempotence_score, rep.maintainability_score,
      rep.standards_score, rep.overall_score>>

\* C21: the phases of a run occur strictly in the order Idle,
\* Scanning(playbooks), Scanning(compose), Scoring, Summarizing, Done.  A
\* scanning phase is left only when it has no file left; a file is scanned
\* only in the scanning phase of its kind, so no playbook after a compose
\* file and no file once scoring has started; the scores are computed in
\* the one step from Scanning(compose) to Scoring and the summary in the one
\* step from Scoring to Summarizing, each once per run and after every
\* issue of the run was added.  (The step from "exited" is the constructor
\* of the next analyzer, which starts from a new report.)
C21_PhaseOrder ==
    /\ [][/\ pc' # pc => <<pc, pc'>> \in PhaseChanges
          /\ (pc' # pc /\ pc \in {"playbooks", "compose"}) => todo = <<>>
          /\ (report'.files_analyzed # report.files_analyzed /\ pc # "exited") =>
                /\ pc' = pc
                /\ pc \in {"playbooks", "compose"}
                /\ Head(todo).path[1] = (IF pc = "playbooks" THEN "playbooks" ELSE StacksName)
          /\ (issues' # issues /\ pc # "exited") =>
                (pc' = pc /\ pc \in {"playbooks", "compose"})
          /\ (Scores(report') # Scores(report) /\ pc # "exited") =>
                (pc = "compose" /\ pc' = "scored")
          /\ (report'.summary # report.summary /\ pc # "exited") =>
                (pc = "scored" /\ pc' = "summarized")
          /\ (pc = "compose" /\ pc' = "scored") =>
                (report' = calculate_scores(report, issues) /\ issues' = issues)
          /\ (pc = "scored" /\ pc' = "summarized") =>
                (report'.summary = generate_summary(issues) /\ issues' = issues)]_vars
    /\ [](\A k \in 1..Len(returned) :
             returned[k].fresh =>
                 \A i, j \in 1..Len(returned[k].issues) :
                     (returned[k].issues[i].file[1] = StacksName
                      /\ returned[k].issues[j].file[1] = "playbooks") => j < i)

\* A run over a tree with a playbook and a compose file is done: it counted
\* both files and holds an issue of each, the playbook's first.
C21_Witness ==
    /\ pc = "done"
    /\ fresh
    /\ report.files_analyzed = 2
    /\ Len(fs.playbooks) = 1 /\ Len(fs.composes) = 1
    /\ issues # <<>>
    /\ issues[1].file[1] = "playbooks"
    /\ issues[Len(issues)].file[1] = StacksName
    /\ report.summary.total_issues = Len(issues)

\* The (play, task) positions of a playbook that hold a task without a name
\* in a tasks value that is a sequence.
UnnamedTasks(plays) ==
    UNION { { <<p, t>> : t \in { u \in 1..Len(PlayTasks(plays[p])) :
                                   /\ isinstance_dict(PlayTasks(plays[p])[u])
                                   /\ ~HasKey(PlayTasks(plays[p])[u], "name") } } :
            p \in 1..Len(plays) }

\* C22 as stated: analysing a playbook whose root is a sequence evaluates
\* every play that is a map, whatever the shape of the other plays: every
\* play without a name yields its warning/maintainability finding on the
\* play's line, also after a play whose tasks value is not a sequence, and
\* the task-level findings are those of the tasks values that are sequences.
C22_AsStated ==
    [][ScanPlays =>
         /\ \A p \in 1..Len(Head(todo).data.e) :
                (isinstance_dict(Head(todo).data.e[p]) /\ ~HasKey(Head(todo).data.e[p], "name")) =>
                    \E i \in 1..Len(Appended) :
                        /\ Appended[i].line = p
                        /\ Appended[i].severity = "warning"
                        /\ Appended[i].category = "maintainability"
                        /\ Appended[i].message = <<"Play should have a descriptive name">>
         /\ Findings(Appended, "warning", "maintainability",
                     "Task should have a descriptive name")
              = Cardinality(UnnamedTasks(Head(todo).data.e))]_vars

\* C23: during a run the issues sequence is append-only and the file counter
\* never decreases: every step keeps the issues it found as a prefix of the
\* issues it leaves, and files_analyzed grows by exactly one in every round
\* of a scanning loop, which takes one file from the enumeration, and in no
\* other step.  (The step from "exited" is the constructor of the next
\* analyzer, which starts from an empty list and a new report.)
C23_AppendOnly ==
    [][pc # "exited" =>
         /\ Len(issues') >= Len(issues)
         /\ SubSeq(issues', 1, Len(issues)) = issues
         /\ report'.files_analyzed >= report.files_analyzed
         /\ ScanStep => report'.files_analyzed = report.files_analyzed + 1
         /\ (todo # <<>> /\ todo' = Tail(todo)) =>
                report'.files_analyzed = report.files_analyzed + 1
         /\ report'.files_analyzed # report.files_analyzed =>
                /\ report'.files_analyzed = report.files_analyzed + 1
                /\ todo # <<>>
                /\ todo' = Tail(todo)]_vars

\* The analyzer counted two files and holds issues of two files, those of
\* the first file before those of the second.
C23_Witness ==
    /\ report.files_analyzed = 2
    /\ Len(issues) >= 2
    /\ issues[1].file # issues[Len(issues)].file

\* The sequences that hold the issues of a sequence in another order.
Reorderings(iss) ==
    { [i \in 1..Len(iss) |-> iss[f[i]]] : f \in Permutations(1..Len(iss)) }

\* C24: the four category scores, the overall score and the summary counts
\* do not depend on the order of the issues: _calculate_scores and
\* _generate_summary give for every permutation of the issues the scores,
\* the total, by_severity and by_category they gave for the issues as the
\* analyzer holds them.
C24_OrderIndependent ==
    /\ pc \in {"perm_scored", "perm_summarized"} =>
          \A perm \in Reorderings(issues) :
              Scores(calculate_scores(AnalysisReport(1), perm)) = Scores(report)
    /\ pc = "perm_summarized" =>
          \A perm \in Reorderings(issues) : generate_summary(perm) = report.summary

\* Scores and summary were computed for three issues of one category of
\* three different severities, which have six different orders.
C24_Witness ==
    /\ pc = "perm_summarized"
    /\ Len(issues) = 3
    /\ Cardinality(Reorderings(issues)) = 6
    /\ \A i \in 1..3 : issues[i].category = issues[1].category
    /\ report.summary.total_issues = 3
    /\ ScoreOf(report, issues[1].category) = FullScore - 17

====
